---- MODULE Spec2Model ----
(***************************************************************************)
(* Model of the media_hub daemon host (src/src/app/main.js) and of its     *)
(* HTTP transfer service (src/src/daemon/services/http.js).                *)
(*                                                                         *)
(* Strings that the code slices and splits (request URLs, ids) are         *)
(* sequences of one-character strings; filesystem paths are sequences of   *)
(* path components, so Path.join(p, c) is Append(p, c).                    *)
(***************************************************************************)
EXTENDS Integers, Sequences, FiniteSets, TLC

\* ------------------------------------------------------------------ bounds
MaxReqs == 2
MaxSegs == 3
MaxInitCount == 1
MaxUpdates == 2
MaxConns == 1

\* ------------------------------------------------------------------- state
\* The transfer service: the store, the filesystem, the requests in flight,
\* and the download counts the store was built with.
VARIABLES metaData, disk, req, count0, alive

\* The HTTP listeners: every HTTPService constructed so far, the ports held
\* by other processes, and the last call of start() or stop() by a caller.
VARIABLES http, others, call

\* The host: main.js's module-level references and its pending promises.
VARIABLES server, nServers, chain, nCalls, config, writes, nUpdates, errorsSent, app

\* The host's teardown: the persistent store handle, the promise chain of
\* will-quit, and the errors main.js has logged.
VARIABLES db, quit, logged

rvars == <<metaData, disk, req, count0, alive>>
svars == <<http, others, call>>
qvars == <<db, quit, logged>>
hvars == <<server, nServers, chain, nCalls, config, writes, nUpdates, errorsSent, app,
           db, quit, logged>>
vars == <<metaData, disk, req, count0, alive, http, others, call,
          server, nServers, chain, nCalls, config, writes, nUpdates, errorsSent, app,
          db, quit, logged>>

\* ------------------------------------------------- the shared-root fixture
\* A shared directory d holding a shared file g, an unshared file h and a
\* shared sub-directory s with a shared file k; and a shared root file f.
PathD == <<"d">>
PathG == <<"d", "g">>
PathH == <<"d", "h">>
PathS == <<"d", "s">>
PathK == <<"d", "s", "k">>
PathF == <<"f">>

AllPaths == {PathD, PathG, PathH, PathS, PathK, PathF}
SharedPaths == {PathD, PathG, PathS, PathK, PathF}
DirPaths == {PathD, PathS}

\* The stable identifier of a path: a pure, injective function of the path.
idOf(p) ==
    CASE p = PathD -> <<"1">>
      [] p = PathG -> <<"2">>
      [] p = PathS -> <<"3">>
      [] p = PathK -> <<"4">>
      [] p = PathF -> <<"5">>
      [] OTHER -> <<"0">>

Parent(p) == SubSeq(p, 1, Len(p) - 1)

NoParent == <<>>

\* One FileEntry of the store.
Entry(p, n) ==
    [id |-> idOf(p),
     path |-> p,
     name |-> p[Len(p)],
     type |-> IF p \in DirPaths THEN "dir" ELSE "file",
     parent |-> IF Len(p) = 1 THEN NoParent ELSE idOf(Parent(p)),
     downloadCount |-> n]

\* ------------------------------------------------------------- MetaData
\* The store maps a shared path to its entry.
getPathFromId(md, id) ==
    IF \E p \in DOMAIN md : md[p].id = id
    THEN CHOOSE p \in DOMAIN md : md[p].id = id
    ELSE <<>>

\* What a lookup of a path that is not in the store returns.
Undefined == [f \in {} |-> 0]

IsUndefined(data) == DOMAIN data = {}

getData(md, p) == IF p \in DOMAIN md THEN md[p] ELSE Undefined

hasFile(md, p) == p \in DOMAIN md

incrementDownload(md, p) ==
    IF p \in DOMAIN md
    THEN [md EXCEPT ![p].downloadCount = @ + 1]
    ELSE md

\* ------------------------------------------------------------ filesystem
\* Fs.readdir: the names of the entries directly inside directory p.
readdir(fs, p) ==
    {q[Len(q)] : q \in {x \in fs : Len(x) = Len(p) + 1 /\ Parent(x) = p}}

\* --------------------------------------------------------- string helpers
Slash == "/"
Meta == <<"m", "e", "t", "a">>

\* String.prototype.slice(1)
slice1(s) == IF Len(s) = 0 THEN <<>> ELSE Tail(s)

\* String.prototype.endsWith("/")
endsWithSlash(s) == Len(s) > 0 /\ s[Len(s)] = Slash

\* String.prototype.split("/"): "" splits to [""], "a/" to ["a", ""].
RECURSIVE splitFrom(_, _, _)
splitFrom(s, i, cur) ==
    IF i > Len(s) THEN <<cur>>
    ELSE IF s[i] = Slash THEN <<cur>> \o splitFrom(s, i + 1, <<>>)
    ELSE splitFrom(s, i + 1, Append(cur, s[i]))

split(s) == splitFrom(s, 1, <<>>)

\* --------------------------------------------------------------- requests
\* validateRequest without the test of the second segment.
validateRequest_NoMetaCheck(md, url) ==
    LET p1 == slice1(url)
        p2 == IF endsWithSlash(p1) THEN SubSeq(p1, 1, Len(p1) - 1) ELSE p1
        segs == split(p2)
    IN  IF Len(segs) > 2
        THEN [path |-> segs, code |-> 404]
        ELSE IF getPathFromId(md, segs[1]) = <<>>
        THEN [path |-> segs, code |-> 404]
        ELSE [path |-> segs, code |-> 0]

\* validateRequest without the lookup of the first segment.
validateRequest_NoIdCheck(md, url) ==
    LET p1 == slice1(url)
        p2 == IF endsWithSlash(p1) THEN SubSeq(p1, 1, Len(p1) - 1) ELSE p1
        segs == split(p2)
    IN  IF Len(segs) > 2 \/ (Len(segs) = 2 /\ segs[2] # Meta)
        THEN [path |-> segs, code |-> 404]
        ELSE [path |-> segs, code |-> 0]

\* validateRequest: the parsed req.path and the code of the error it throws
\* (0 when it returns normally).
validateRequest(md, url) ==
    LET p1 == slice1(url)
        p2 == IF endsWithSlash(p1) THEN SubSeq(p1, 1, Len(p1) - 1) ELSE p1
        segs == split(p2)
    IN  IF Len(segs) > 2 \/ (Len(segs) = 2 /\ segs[2] # Meta)
        THEN [path |-> segs, code |-> 404]
        ELSE IF getPathFromId(md, segs[1]) = <<>>
        THEN [path |-> segs, code |-> 404]
        ELSE [path |-> segs, code |-> 0]

NoBody == [kind |-> "none"]

\* delete data.path on the spread copy { ...data }
withoutPath(data) == [f \in (DOMAIN data) \ {"path"} |-> data[f]]

\* metaDataRequestHandler without the delete of data.path.
metaDataRequestHandler_KeepPath(md, rq) ==
    LET data == getData(md, getPathFromId(md, rq.path[1]))
    IN  [md |-> md,
         rq |-> [rq EXCEPT !.pc = "ended", !.status = 200, !.ctype = "json",
                           !.body = [kind |-> "meta", data |-> data]]]

\* metaDataRequestHandler deleting data.path of the stored entry itself,
\* without the spread copy.
metaDataRequestHandler_NoCopy(md, rq) ==
    LET p == getPathFromId(md, rq.path[1])
        data == getData(md, p)
    IN  [md |-> [md EXCEPT ![p] = withoutPath(data)],
         rq |-> [rq EXCEPT !.pc = "ended", !.status = 200, !.ctype = "json",
                           !.body = [kind |-> "meta", data |-> withoutPath(data)]]]

\* metaDataRequestHandler: the response it writes and ends, and the store
\* it leaves, which the delete on the spread copy does not touch.
metaDataRequestHandler(md, rq) ==
    LET data == getData(md, getPathFromId(md, rq.path[1]))
    IN  [md |-> md,
         rq |-> [rq EXCEPT !.pc = "ended", !.status = 200, !.ctype = "json",
                           !.body = [kind |-> "meta", data |-> withoutPath(data)]]]

\* The listing when the children are looked up by name, not by joined path.
listing_NoJoin(md, p, children) ==
    {[name |-> getData(md, <<c>>).name, id |-> getData(md, <<c>>).id] :
        c \in {x \in children : hasFile(md, <<x>>)}}

\* The listing fileRequestHandler builds from the result of readdir.
listing(md, p, children) ==
    {[name |-> getData(md, Append(p, c)).name, id |-> getData(md, Append(p, c)).id] :
        c \in {x \in children : hasFile(md, Append(p, x))}}

\* fileRequestHandler incrementing under the requested id, not the path.
fileRequestHandler_CountById(md, rq) ==
    LET data == getData(md, getPathFromId(md, rq.path[1]))
        path == data.path
    IN  IF IsUndefined(data)
        THEN [md |-> md, rq |-> [rq EXCEPT !.pc = "ended", !.status = 500]]
        ELSE IF data.type = "dir"
        THEN [md |-> md, rq |-> [rq EXCEPT !.pc = "readdir"]]
        ELSE [md |-> incrementDownload(md, rq.path[1]),
              rq |-> [rq EXCEPT !.pc = "piping", !.status = 200, !.ctype = "octet-stream"]]

\* fileRequestHandler up to its return: for a directory the readdir promise
\* is pending; for a file the header is written, the stream is piped and the
\* counter is incremented. Reading data.path of a missing entry throws, and
\* rootHandler's catch ends the response with 500.
fileRequestHandler(md, rq) ==
    LET data == getData(md, getPathFromId(md, rq.path[1]))
        path == data.path
    IN  IF IsUndefined(data)
        THEN [md |-> md, rq |-> [rq EXCEPT !.pc = "ended", !.status = 500]]
        ELSE IF data.type = "dir"
        THEN [md |-> md, rq |-> [rq EXCEPT !.pc = "readdir"]]
        ELSE [md |-> incrementDownload(md, path),
              rq |-> [rq EXCEPT !.pc = "piping", !.status = 200, !.ctype = "octet-stream"]]

Reqs == 1 .. MaxReqs

IdleReq == [pc |-> "idle", url |-> <<>>, path |-> <<>>, status |-> 0,
            ctype |-> "none", body |-> NoBody]

\* The disks a store built from the fixture can face later: every shared
\* path existed when the store was built, some may have been removed since.
Disks == {AllPaths, AllPaths \ {PathF}, AllPaths \ {PathG}, AllPaths \ {PathS, PathK}}

InitReq ==
    /\ \E n \in 0 .. MaxInitCount :
          /\ metaData = [p \in SharedPaths |-> Entry(p, n)]
          /\ count0 = [p \in SharedPaths |-> n]
    /\ disk \in Disks
    /\ req = [r \in Reqs |-> IdleReq]
    /\ alive = TRUE

\* "/" followed by the segments joined with "/".
RECURSIVE joinSegs(_)
joinSegs(segs) ==
    IF Len(segs) = 0 THEN <<>>
    ELSE IF Len(segs) = 1 THEN segs[1]
    ELSE segs[1] \o <<Slash>> \o joinSegs(Tail(segs))

UrlOf(segs) == <<Slash>> \o joinSegs(segs)

UnknownId == <<"9">>

\* The request URLs of the concurrent-request specification.
ReqUrls ==
    {UrlOf(<<idOf(PathF)>>), UrlOf(<<idOf(PathF), Meta>>), UrlOf(<<idOf(PathG)>>),
     UrlOf(<<idOf(PathD)>>), UrlOf(<<idOf(PathS)>>), UrlOf(<<idOf(PathD), <<>>>>),
     UrlOf(<<UnknownId>>), UrlOf(<<>>), UrlOf(<<idOf(PathF), <<"x">>>>),
     UrlOf(<<idOf(PathF), Meta, <<"x">>>>)}

\* A request arrives on a connection: http.createServer routes it to
\* rootHandler.
Arrive(r, u) ==
    /\ alive
    /\ req[r].pc = "idle"
    /\ req' = [req EXCEPT ![r] = [IdleReq EXCEPT !.pc = "received", !.url = u]]
    /\ UNCHANGED <<metaData, disk, count0, alive>>
    /\ UNCHANGED svars
    /\ UNCHANGED hvars

\* rootHandler up to its first suspension: validateRequest, then the
\* metadata or the content handler; a thrown 404 ends the response.
RootHandler(r) ==
    /\ alive
    /\ req[r].pc = "received"
    /\ LET v == validateRequest(metaData, req[r].url)
           rq == [req[r] EXCEPT !.path = v.path]
       IN  IF v.code = 404
           THEN /\ req' = [req EXCEPT ![r] = [rq EXCEPT !.pc = "ended", !.status = 404]]
                /\ UNCHANGED metaData
           ELSE IF Len(rq.path) = 2
           THEN LET o == metaDataRequestHandler(metaData, rq)
                IN  /\ req' = [req EXCEPT ![r] = o.rq]
                    /\ metaData' = o.md
           ELSE LET o == fileRequestHandler(metaData, rq)
                IN  /\ req' = [req EXCEPT ![r] = o.rq]
                    /\ metaData' = o.md
    /\ UNCHANGED <<disk, count0, alive>>
    /\ UNCHANGED svars
    /\ UNCHANGED hvars

\* The path of the entry a routed request names.
TargetOf(rq) == getPathFromId(metaData, rq.path[1])

\* The readdir promise settles: the listing is written, or the rejection
\* reaches rootHandler's catch and the response is ended with 500.
ReaddirDone(r) ==
    /\ alive
    /\ req[r].pc = "readdir"
    /\ LET p == TargetOf(req[r])
       IN  IF p \in disk
           THEN req' = [req EXCEPT ![r] =
                    [@ EXCEPT !.pc = "ended", !.status = 200, !.ctype = "json",
                              !.body = [kind |-> "listing", id |-> req[r].path[1],
                                        children |-> listing(metaData, p, readdir(disk, p))]]]
           ELSE req' = [req EXCEPT ![r] = [@ EXCEPT !.pc = "ended", !.status = 500]]
    /\ UNCHANGED <<metaData, disk, count0, alive>>
    /\ UNCHANGED svars
    /\ UNCHANGED hvars

\* The piped read stream reaches its end and ends the response.
StreamEnd(r) ==
    /\ alive
    /\ req[r].pc = "piping"
    /\ TargetOf(req[r]) \in disk
    /\ req' = [req EXCEPT ![r] =
           [@ EXCEPT !.pc = "ended", !.body = [kind |-> "file", data |-> TargetOf(req[r])]]]
    /\ UNCHANGED <<metaData, disk, count0, alive>>
    /\ UNCHANGED svars
    /\ UNCHANGED hvars

\* The read stream cannot open the file: it emits 'error', which nothing
\* handles, and the response, whose 200 header is written, is never ended.
\* Here the uncaught exception is reported and the process goes on.
StreamError(r) ==
    /\ alive
    /\ req[r].pc = "piping"
    /\ TargetOf(req[r]) \notin disk
    /\ req' = [req EXCEPT ![r] = [@ EXCEPT !.pc = "hung"]]
    /\ UNCHANGED <<metaData, disk, count0, alive>>
    /\ UNCHANGED svars
    /\ UNCHANGED hvars

\* The same failure when the uncaught exception ends the process: every
\* response not yet ended is cut and nothing is served any more.
StreamErrorExit(r) ==
    /\ alive
    /\ req[r].pc = "piping"
    /\ TargetOf(req[r]) \notin disk
    /\ alive' = FALSE
    /\ req' = [x \in Reqs |->
                 IF req[x].pc \in {"received", "readdir", "piping"}
                 THEN [req[x] EXCEPT !.pc = "aborted"] ELSE req[x]]
    /\ UNCHANGED <<metaData, disk, count0>>
    /\ UNCHANGED svars
    /\ UNCHANGED hvars

NextReq ==
    \/ \E r \in Reqs, u \in ReqUrls : Arrive(r, u)
    \/ \E r \in Reqs : RootHandler(r)
    \/ \E r \in Reqs : ReaddirDone(r)
    \/ \E r \in Reqs : StreamEnd(r)
    \/ \E r \in Reqs : StreamError(r)
    \/ \E r \in Reqs : StreamErrorExit(r)

\* ------------------------------------------------------ the HTTP listener
\* The ports a configuration can name: none at all, a usable port, and a
\* number outside the port range.
NoPort == "unset"
GoodPort == "p8000"
BadPort == "p70000"
ConfigPorts == {NoPort, GoodPort, BadPort}

\* The state of one HTTPService: its port and its http.Server (the listening
\* handle, whether 'listening' was emitted, the open connections, an 'error'
\* or 'close' event still to be emitted, and whether the 'error' handler
\* has logged a failure).
NoHttp == [port |-> NoPort, handle |-> FALSE, listening |-> FALSE, conns |-> 0,
           errPending |-> FALSE, closing |-> FALSE, err |-> FALSE]

\* new HTTPService(metaData, port)
newHTTPService(port) == [NoHttp EXCEPT !.port = port]

\* ServiceLifecycleState of an HTTPService.
Lifecycle(h) ==
    IF h.handle THEN (IF h.listening THEN "running" ELSE "starting")
    ELSE IF h.errPending THEN "starting"
    ELSE IF h.closing \/ h.conns > 0 THEN "stopping"
    ELSE "stopped"

\* No other listener, of this process or of another one, holds the port.
PortFree(hs, i, ext) ==
    /\ hs[i].port \notin ext
    /\ \A j \in (DOMAIN hs) \ {i} : ~(hs[j].handle /\ hs[j].port = hs[i].port)

\* The events of one promise chain that has nothing pending run before any
\* other event is handled, so they are one step; a listener's 'listening',
\* 'error' and 'close' events come in later steps than the call that caused
\* them.
\* HTTPService.start: this.server.listen(this.port). listen throws on a
\* server that already has a handle and on a port out of range; it binds at
\* once, and a bind failure is emitted later as an 'error' event.
start(hs, i, ext) ==
    IF hs[i].handle \/ hs[i].port = BadPort
    THEN [http |-> hs, raised |-> TRUE]
    ELSE IF PortFree(hs, i, ext)
    THEN [http |-> [hs EXCEPT ![i].handle = TRUE], raised |-> FALSE]
    ELSE [http |-> [hs EXCEPT ![i].errPending = TRUE], raised |-> FALSE]

\* HTTPService.stop: this.server.close(). The handle is closed at once, the
\* 'close' event waits for the open connections; the call returns nothing.
stop(hs, i) ==
    IF hs[i].handle
    THEN [hs EXCEPT ![i].handle = FALSE, ![i].listening = FALSE, ![i].closing = TRUE]
    ELSE hs

\* createServer is called once by init and once per configuration update.
MaxCalls == MaxUpdates + 1
Insts == 1 .. MaxCalls

\* 'listening' is emitted.
Listening(i) ==
    /\ app # "exited"
    /\ http[i].handle /\ ~http[i].listening
    /\ http' = [http EXCEPT ![i].listening = TRUE]
    /\ UNCHANGED <<others, call>>
    /\ UNCHANGED hvars
    /\ UNCHANGED rvars

\* 'error' is emitted after a failed bind: the handler logs it.
ListenError(i) ==
    /\ app # "exited"
    /\ http[i].errPending
    /\ http' = [http EXCEPT ![i].errPending = FALSE, ![i].err = TRUE]
    /\ UNCHANGED <<others, call>>
    /\ UNCHANGED hvars
    /\ UNCHANGED rvars

\* 'close' is emitted once the closed server has no connection left.
CloseEvent(i) ==
    /\ app # "exited"
    /\ http[i].closing /\ ~http[i].handle /\ http[i].conns = 0
    /\ http' = [http EXCEPT ![i].closing = FALSE]
    /\ UNCHANGED <<others, call>>
    /\ UNCHANGED hvars
    /\ UNCHANGED rvars

\* A peer opens a connection to a running listener.
Connect(i) ==
    /\ app # "exited"
    /\ http[i].handle /\ http[i].listening
    /\ http[i].conns < MaxConns
    /\ http' = [http EXCEPT ![i].conns = @ + 1]
    /\ UNCHANGED <<others, call>>
    /\ UNCHANGED hvars
    /\ UNCHANGED rvars

\* A peer closes its connection.
Disconnect(i) ==
    /\ app # "exited"
    /\ http[i].conns > 0
    /\ http' = [http EXCEPT ![i].conns = @ - 1]
    /\ UNCHANGED <<others, call>>
    /\ UNCHANGED hvars
    /\ UNCHANGED rvars

\* ------------------------------------------------------------ the host
NoCall == [op |-> "none", inst |-> 0, pre |-> "stopped", post |-> "stopped", raised |-> FALSE]

NoChain == [pc |-> "unused", sig |-> "resolved", old |-> 0]

\* Server.stop: both services are asked to stop and the collection of what
\* their stop() returned is handed back. HTTPService.stop returns nothing,
\* so only the discovery service's signal can be pending.
ServerStop(hs, i) == [http |-> stop(hs, i), sig |-> "pending"]

\* The continuation of createServer once Promise.all has settled (a
\* rejection is logged by the first catch): new Server(db, config._) and
\* server.start(); an exception thrown by either reaches the last catch,
\* which sends SERVER_ERROR to the window. A configuration without a port
\* makes the constructor throw before server is assigned.
createServerThen(hs) ==
    IF config.port = NoPort
    THEN /\ errorsSent' = errorsSent \cup {0}
         /\ http' = hs
         /\ UNCHANGED <<server, nServers>>
    ELSE LET i == nServers + 1
             o == start([hs EXCEPT ![i] = newHTTPService(config.port)], i, others)
         IN  /\ server' = i
             /\ nServers' = i
             /\ http' = o.http
             /\ errorsSent' = IF o.raised THEN errorsSent \cup {i} ELSE errorsSent

\* The configuration a Server holds: new Server(db, config._) hands it the
\* object config._ itself, not a copy, and every Server is handed the same
\* object, which CONFIG_UPDATE changes by Object.assign.
ServerConfig(i) == config

\* createServer: the current Server, if any, is asked to stop and the rest
\* of the chain waits for the signals it returned; with no Server there is
\* nothing to wait for and the continuation runs before any other event.
createServer ==
    /\ nCalls < MaxCalls
    /\ nCalls' = nCalls + 1
    /\ IF server # 0
       THEN LET o == ServerStop(http, server)
            IN  /\ http' = o.http
                /\ chain' = [chain EXCEPT ![nCalls + 1] =
                                [pc |-> "waiting", sig |-> o.sig, old |-> server]]
                /\ UNCHANGED <<server, nServers, errorsSent>>
       ELSE /\ chain' = [chain EXCEPT ![nCalls + 1] =
                            [pc |-> "done", sig |-> "resolved", old |-> 0]]
            /\ createServerThen(http)
    /\ UNCHANGED <<config, nUpdates, others, call>>
    /\ UNCHANGED rvars

\* app.on("ready", init): init ends by calling createServer.
AppReady ==
    /\ app = "loading"
    /\ app' = "ready"
    /\ writes' = writes
    /\ createServer
    /\ UNCHANGED qvars

\* ipcMain.on(CONFIG_UPDATE): the update is assigned onto config._ and the
\* configuration file is written.
ConfigUpdate(p) ==
    /\ app = "ready"
    /\ nUpdates < MaxUpdates
    /\ nUpdates' = nUpdates + 1
    /\ config' = [config EXCEPT !.port = p]
    /\ writes' = writes + 1
    /\ UNCHANGED <<server, nServers, chain, nCalls, errorsSent, app>>
    /\ UNCHANGED qvars
    /\ UNCHANGED svars
    /\ UNCHANGED rvars

\* config.write() resolves: its continuation calls createServer.
WriteDone ==
    /\ app # "exited"
    /\ writes > 0
    /\ writes' = writes - 1
    /\ app' = app
    /\ createServer
    /\ UNCHANGED qvars

\* The chain of createServer without its first catch: a rejected signal
\* skips the construction and reaches the last catch, which sends
\* SERVER_ERROR to the window.
StopSettled_NoCatch(c, outcome) ==
    /\ app # "exited"
    /\ chain[c].pc = "waiting" /\ chain[c].sig = "pending"
    /\ chain' = [chain EXCEPT ![c] = [@ EXCEPT !.pc = "done", !.sig = outcome]]
    /\ IF outcome = "rejected"
       THEN /\ errorsSent' = errorsSent \cup {0}
            /\ UNCHANGED <<server, nServers, http>>
       ELSE createServerThen(http)
    /\ UNCHANGED <<nCalls, config, writes, nUpdates, app, others, call, db, quit, logged>>
    /\ UNCHANGED rvars

\* The signals of a stop settle, resolved or rejected, and the continuation
\* of the createServer call that waited for them runs.
StopSettled(c, outcome) ==
    /\ app # "exited"
    /\ chain[c].pc = "waiting" /\ chain[c].sig = "pending"
    /\ chain' = [chain EXCEPT ![c] = [@ EXCEPT !.pc = "done", !.sig = outcome]]
    /\ logged' = IF outcome = "rejected" THEN logged \cup {"createServer"} ELSE logged
    /\ createServerThen(http)
    /\ UNCHANGED <<nCalls, config, writes, nUpdates, app, others, call, db, quit>>
    /\ UNCHANGED rvars

NoQuit == [pc |-> "none", sig |-> "pending", old |-> 0]

\* app.on("will-quit"): the default is prevented; if a Server is referenced
\* it is asked to stop and the rest of the chain waits for its signals,
\* otherwise nothing more is scheduled.
WillQuit ==
    /\ app = "ready"
    /\ app' = "quitting"
    /\ IF server # 0
       THEN LET o == ServerStop(http, server)
            IN  /\ http' = o.http
                /\ quit' = [pc |-> "waiting", sig |-> o.sig, old |-> server]
       ELSE /\ http' = http
            /\ quit' = quit
    /\ UNCHANGED <<server, nServers, chain, nCalls, config, writes, nUpdates, errorsSent>>
    /\ UNCHANGED <<db, logged, others, call>>
    /\ UNCHANGED rvars

\* Promise.all(server.stop()) settles in will-quit: resolved, db.close() is
\* called; rejected, the chain skips to its catch, which logs, and then
\* app.exit() runs.
QuitSettled(outcome) ==
    /\ app = "quitting"
    /\ quit.pc = "waiting"
    /\ IF outcome = "resolved"
       THEN /\ quit' = [quit EXCEPT !.pc = "closing", !.sig = outcome]
            /\ db' = "closing"
            /\ UNCHANGED <<app, logged>>
       ELSE /\ quit' = [quit EXCEPT !.pc = "done", !.sig = outcome]
            /\ logged' = logged \cup {"quit"}
            /\ app' = "exited"
            /\ db' = db
    /\ UNCHANGED <<server, nServers, chain, nCalls, config, writes, nUpdates, errorsSent>>
    /\ UNCHANGED svars
    /\ UNCHANGED rvars

\* db.close() settles: a rejection is logged by the catch; either way
\* app.exit() runs.
DbClosed(outcome) ==
    /\ app = "quitting"
    /\ quit.pc = "closing"
    /\ quit' = [quit EXCEPT !.pc = "done"]
    /\ db' = IF outcome = "resolved" THEN "closed" ELSE "open"
    /\ logged' = IF outcome = "rejected" THEN logged \cup {"quit"} ELSE logged
    /\ app' = "exited"
    /\ UNCHANGED <<server, nServers, chain, nCalls, config, writes, nUpdates, errorsSent>>
    /\ UNCHANGED svars
    /\ UNCHANGED rvars

InitHost ==
    /\ server = 0
    /\ nServers = 0
    /\ chain = [c \in 1 .. MaxCalls |-> NoChain]
    /\ nCalls = 0
    /\ config \in [port : ConfigPorts]
    /\ writes = 0
    /\ nUpdates = 0
    /\ errorsSent = {}
    /\ app = "loading"
    /\ db = "open"
    /\ quit = NoQuit
    /\ logged = {}

InitService ==
    /\ http = [i \in Insts |-> NoHttp]
    /\ others \in {{}, {GoodPort}}
    /\ call = NoCall

\* The requests one service answers, interleaved at their suspension points.
Init ==
    /\ InitReq
    /\ InitService /\ others = {}
    /\ InitHost /\ config.port = GoodPort

Next == NextReq

Spec == Init /\ [][Next]_vars

\* The host: start-up, configuration updates and the restarts they trigger.
NextHost ==
    \/ AppReady
    \/ \E p \in ConfigPorts : ConfigUpdate(p)
    \/ WriteDone
    \/ \E c \in 1 .. MaxCalls, o \in {"resolved", "rejected"} : StopSettled(c, o)
    \/ WillQuit
    \/ \E o \in {"resolved", "rejected"} : QuitSettled(o)
    \/ \E o \in {"resolved", "rejected"} : DbClosed(o)
    \/ \E i \in Insts : Listening(i)
    \/ \E i \in Insts : ListenError(i)
    \/ \E i \in Insts : CloseEvent(i)
    \/ \E i \in Insts : Connect(i)
    \/ \E i \in Insts : Disconnect(i)

InitHostSpec ==
    /\ InitHost
    /\ InitService
    /\ InitReq /\ disk = AllPaths /\ count0[PathF] = 0

SpecHost == InitHostSpec /\ [][NextHost]_vars

\* The host under the scheduling the runtime guarantees: a promise that is
\* due to settle settles and its continuation runs, and an event that is
\* due is emitted. When the user updates the configuration or quits, and
\* when a client ends its connection, are theirs to decide.
SpecHostFair ==
    /\ InitHostSpec
    /\ [][NextHost]_vars
    /\ WF_vars(WriteDone)
    /\ WF_vars(\E c \in 1 .. MaxCalls, o \in {"resolved", "rejected"} : StopSettled(c, o))
    /\ WF_vars(\E o \in {"resolved", "rejected"} : QuitSettled(o))
    /\ WF_vars(\E o \in {"resolved", "rejected"} : DbClosed(o))
    /\ \A i \in Insts : WF_vars(Listening(i))
    /\ \A i \in Insts : WF_vars(ListenError(i))
    /\ \A i \in Insts : WF_vars(CloseEvent(i))

\* The HTTPService seen by a caller of its start() and stop(): two services
\* configured with the same port, called in any order.
ServiceInsts == {1, 2}

ApiStart(i) ==
    /\ LET o == start(http, i, others)
       IN  /\ http' = o.http
           /\ call' = [op |-> "start", inst |-> i, pre |-> Lifecycle(http[i]),
                        post |-> Lifecycle(o.http[i]), raised |-> o.raised]
    /\ UNCHANGED others
    /\ UNCHANGED hvars
    /\ UNCHANGED rvars

ApiStop(i) ==
    /\ http' = stop(http, i)
    /\ call' = [op |-> "stop", inst |-> i, pre |-> Lifecycle(http[i]),
                 post |-> Lifecycle(stop(http, i)[i]), raised |-> FALSE]
    /\ UNCHANGED others
    /\ UNCHANGED hvars
    /\ UNCHANGED rvars

NextService ==
    \/ \E i \in ServiceInsts : ApiStart(i)
    \/ \E i \in ServiceInsts : ApiStop(i)
    \/ \E i \in ServiceInsts : Listening(i)
    \/ \E i \in ServiceInsts : ListenError(i)
    \/ \E i \in ServiceInsts : CloseEvent(i)
    \/ \E i \in ServiceInsts : Connect(i)
    \/ \E i \in ServiceInsts : Disconnect(i)

InitServiceSpec ==
    /\ http = [i \in Insts |-> IF i \in ServiceInsts THEN newHTTPService(GoodPort) ELSE NoHttp]
    /\ others \in {{}, {GoodPort}}
    /\ call = NoCall
    /\ InitHost /\ config.port = GoodPort
    /\ InitReq /\ disk = AllPaths /\ count0[PathF] = 0

SpecService == InitServiceSpec /\ [][NextService]_vars

\* The same service under the scheduling Node guarantees: an event that is
\* due ('listening', 'error', 'close') is emitted. When a caller calls and
\* when a client ends its connection are theirs to decide.
SpecServiceFair ==
    /\ InitServiceSpec
    /\ [][NextService]_vars
    /\ \A i \in ServiceInsts : WF_vars(Listening(i))
    /\ \A i \in ServiceInsts : WF_vars(ListenError(i))
    /\ \A i \in ServiceInsts : WF_vars(CloseEvent(i))

\* One request with any URL: validateRequest over every shape of path.
RECURSIVE SeqsUpTo(_, _)
SeqsUpTo(S, n) ==
    IF n = 0 THEN {<<>>}
    ELSE LET shorter == SeqsUpTo(S, n - 1)
         IN  shorter \cup {Append(q, x) : q \in shorter, x \in S}

Segments == {<<>>, idOf(PathF), idOf(PathD), UnknownId, Meta, <<"m", "e", "t">>}

AllUrls ==
    {UrlOf(segs) : segs \in SeqsUpTo(Segments, MaxSegs)}
        \cup {joinSegs(segs) : segs \in SeqsUpTo(Segments, MaxSegs)}

NextValidate ==
    \/ \E u \in AllUrls : Arrive(1, u)
    \/ RootHandler(1)
    \/ ReaddirDone(1)
    \/ StreamEnd(1)
    \/ StreamError(1)
    \/ StreamErrorExit(1)

SpecValidate == Init /\ [][NextValidate]_vars

\* ---------------------------------------------------------------- claims
\* The request path as the claims read it, without the model's split: the
\* URL less its first character and less one trailing separator.
Stripped(u) ==
    LET s1 == slice1(u)
    IN  IF endsWithSlash(s1) THEN SubSeq(s1, 1, Len(s1) - 1) ELSE s1

SlashesOf(s) == {k \in 1 .. Len(s) : s[k] = Slash}

FirstSegment(s) ==
    IF SlashesOf(s) = {} THEN s
    ELSE SubSeq(s, 1, (CHOOSE k \in SlashesOf(s) : \A j \in SlashesOf(s) : k <= j) - 1)

\* One segment, or two segments the second of which is "meta".
ShapeOk(u) ==
    LET s == Stripped(u)
    IN  \/ SlashesOf(s) = {}
        \/ /\ Cardinality(SlashesOf(s)) = 1
           /\ Len(s) >= 5
           /\ s[Len(s) - 4] = Slash
           /\ SubSeq(s, Len(s) - 3, Len(s)) = Meta

Routed(rq) == rq.pc \notin {"idle", "received"}

Resolves(id) == \E p \in SharedPaths : idOf(p) = id

\* A content request for path p: "/{id}" with or without a trailing "/".
IsFetchOf(u, p) == u \in {UrlOf(<<idOf(p)>>), UrlOf(<<idOf(p), <<>>>>)}

FilePaths == SharedPaths \ DirPaths

\* C3: once every request has finished, the downloadCount of each file is
\* its initial value plus the number of content requests made for it; with
\* all MaxReqs requests fetching the same file, the initial value plus
\* MaxReqs.
C3_NoLostIncrement ==
    (\A r \in Reqs : req[r].pc = "ended") =>
        \A p \in FilePaths :
            metaData[p].downloadCount =
                count0[p] + Cardinality({r \in Reqs : IsFetchOf(req[r].url, p)})

C3_Witness ==
    \A r \in Reqs : req[r].pc = "ended" /\ req[r].url = UrlOf(<<idOf(PathF)>>)

\* C4: the downloadCount of every entry is its initial value plus the number
\* of file fetches of that entry that have completed successfully: the
\* increment happens on completion, and nothing else changes a counter.
C4_CountPerCompletedFetch ==
    \A p \in SharedPaths :
        metaData[p].downloadCount =
            count0[p] + Cardinality({r \in Reqs :
                /\ req[r].pc = "ended"
                /\ req[r].body.kind = "file"
                /\ req[r].body.data = p})

\* C5: a routed request whose path is not of one of the two valid shapes
\* is answered 404 and nothing else.
C5_InvalidShapeIs404 ==
    \A r \in Reqs :
        (Routed(req[r]) /\ ~ShapeOk(req[r].url)) =>
            (req[r].pc = "ended" /\ req[r].status = 404 /\ req[r].body = NoBody)

C5_Witness ==
    \E r \in Reqs :
        /\ req[r].url = UrlOf(<<idOf(PathF), <<"m", "e", "t">>>>)
        /\ req[r].status = 404

\* C6: a routed request whose first segment is not the id of a store entry
\* is answered 404: it gets no 200 and reaches neither handler.
C6_UnknownIdIs404 ==
    \A r \in Reqs :
        (Routed(req[r]) /\ ~Resolves(FirstSegment(Stripped(req[r].url)))) =>
            (req[r].pc = "ended" /\ req[r].status = 404 /\ req[r].body = NoBody)

C6_Witness ==
    \E r \in Reqs :
        /\ req[r].url = UrlOf(<<UnknownId, Meta>>)
        /\ req[r].status = 404

\* The entry a request names by its first segment.
NamedPath(rq) == CHOOSE p \in SharedPaths : idOf(p) = FirstSegment(Stripped(rq.url))

\* C7: the body of a metadata response has exactly the fields of the stored
\* entry other than path, with the stored values (the downloadCount as it
\* was when the response was written).
C7_MetaOmitsPathOnly ==
    \A r \in Reqs :
        req[r].body.kind = "meta" =>
            LET e == metaData[NamedPath(req[r])]
                d == req[r].body.data
            IN  /\ "path" \notin DOMAIN d
                /\ DOMAIN d = (DOMAIN e) \ {"path"}
                /\ \A f \in (DOMAIN d) \ {"downloadCount"} : d[f] = e[f]
                /\ d.downloadCount \in count0[NamedPath(req[r])] .. e.downloadCount

C7_Witness ==
    \E r \in Reqs : req[r].body.kind = "meta" /\ req[r].url = UrlOf(<<idOf(PathF), Meta>>)

\* C8: a finished content request for a directory D that is on disk is
\* answered 200 with D's id and exactly the {name, id} pairs of the
\* children of D on disk that are in the store.
C8_ListingIsSharedChildren ==
    \A r \in Reqs : \A D \in DirPaths \cap disk :
        (req[r].pc = "ended" /\ IsFetchOf(req[r].url, D)) =>
            /\ req[r].status = 200
            /\ req[r].body =
                  [kind |-> "listing", id |-> idOf(D),
                   children |-> {[name |-> q[Len(q)], id |-> idOf(q)] :
                       q \in {x \in disk \cap SharedPaths : Len(x) > 1 /\ Parent(x) = D}}]

C8_Witness ==
    \E r \in Reqs :
        /\ req[r].body.kind = "listing"
        /\ req[r].body.id = idOf(PathD)
        /\ Cardinality(req[r].body.children) = 2
        /\ PathH \in disk

\* A stop of Server i is still pending: its listener has not finished
\* closing, or a signal returned by its stop() has not settled.
StopPending(i) ==
    \/ Lifecycle(http[i]) = "stopping"
    \/ \E c \in 1 .. MaxCalls :
          chain[c].old = i /\ chain[c].pc = "waiting" /\ chain[c].sig = "pending"

\* C1: no newer Server exists while the stop of an older Server is pending.
C1_NewServerAfterOldStopped ==
    \A i \in Insts, j \in Insts :
        (i < j /\ j <= nServers) => ~StopPending(i)

\* Every restart has run to its end.
Settled ==
    /\ app = "ready"
    /\ writes = 0
    /\ \A c \in 1 .. MaxCalls : chain[c].pc # "waiting"

\* C2: once all restarts have settled, no Server other than the one the
\* host references holds a listener.
C2_OnlyCurrentServerListens ==
    Settled => \A i \in Insts : (i <= nServers /\ i # server) => ~http[i].handle

\* C9: every listener whose start failed has had its failure sent to the
\* window as a server-error event.
C9_StartFailureReported ==
    \A i \in Insts : http[i].err => i \in errorsSent

\* The lifecycle edges of the claim, and those of a failed or interrupted
\* start and of a start during a stop.
AllowedEdge(a, b) ==
    \/ a = b
    \/ <<a, b>> \in {<<"stopped", "starting">>, <<"starting", "running">>,
                     <<"running", "stopping">>, <<"stopping", "stopped">>,
                     <<"starting", "stopped">>, <<"starting", "stopping">>,
                     <<"stopping", "starting">>}

CallIsNoOp ==
    /\ (call.op = "start" /\ call.pre \in {"starting", "running"}) =>
           (~call.raised /\ call.post = call.pre)
    /\ (call.op = "stop" /\ call.pre \in {"stopping", "stopped"}) =>
           (~call.raised /\ call.post = call.pre)

\* C10: every step moves a service along the lifecycle, and a start() of a
\* starting or running service, or a stop() of a stopping or stopped one,
\* raises nothing and leaves the lifecycle state as it was.
C10_LifecycleNoOp ==
    [][/\ \A i \in Insts : AllowedEdge(Lifecycle(http[i]), Lifecycle(http'[i]))
       /\ CallIsNoOp']_vars

\* C11: a service that was asked to stop eventually leaves the stopping
\* state, whether or not its clients ever end their connections.
C11_StopCompletes ==
    \A i \in ServiceInsts :
        (Lifecycle(http[i]) = "stopping") ~> (Lifecycle(http[i]) # "stopping")

\* The Servers whose stop() signals have resolved: the old Server of a
\* restart that went on, and the Server of a quit that went on.
StopResolved ==
    {chain[c].old : c \in {x \in 1 .. MaxCalls :
                              chain[x].pc = "done" /\ chain[x].sig = "resolved"}}
    \cup (IF quit.pc \in {"closing", "done"} /\ quit.sig = "resolved" THEN {quit.old} ELSE {})

\* C12: once the signals of a Server's stop() have resolved, its transfer
\* listener holds the port no more and has actually closed: 'close' was
\* emitted and no connection of it is left.
C12_ResolvedMeansClosed ==
    \A i \in StopResolved \ {0} :
        /\ ~http[i].handle
        /\ ~http[i].closing /\ http[i].conns = 0

\* C13: the configuration held by a Server whose listener is open is the
\* one the Server was constructed with.
C13_RunningConfigFixed ==
    \A i \in Insts :
        (i <= nServers /\ http[i].handle) => ServerConfig(i).port = http[i].port

\* C14: the store handle is closed, or being closed, only during a quit
\* whose stop() signals have resolved, and never while the listener of any
\* Server is open.
C14_StoreClosedOnlyAfterStop ==
    db # "open" =>
        /\ app \in {"quitting", "exited"}
        /\ quit.sig = "resolved"
        /\ \A i \in Insts : ~http[i].handle

\* C15: the downloadCount of a file that cannot be opened for reading is
\* left as it was.
C15_NoCountWithoutRead ==
    \A p \in FilePaths : p \notin disk => metaData[p].downloadCount = count0[p]

\* A content request whose handling has left rootHandler's first run.
Handled(r) == req[r].pc \notin {"idle", "received", "readdir", "piping"}

\* The handling of a content request met a failure: what it names is not
\* on the disk to be enumerated or read.
HandlingFailed(r) ==
    /\ Handled(r)
    /\ req[r].status # 404
    /\ Len(req[r].path) = 1
    /\ TargetOf(req[r]) \notin disk

\* C16: the service stays running, every request it has finished with has
\* an ended response of status 200, 404 or 500, and that status is 500
\* whenever the handling failed.
C16_OneResponsePerRequest ==
    /\ alive
    /\ \A r \in Reqs : Handled(r) =>
           /\ req[r].pc = "ended"
           /\ req[r].status \in {200, 404, 500}
    /\ \A r \in Reqs : HandlingFailed(r) => req[r].status = 500

\* C17: whatever requests were handled, the store holds the entries it was
\* built with, each with its id, path, name, kind and parent; only a
\* downloadCount differs, and it has not decreased.
C17_StoreFrame ==
    /\ DOMAIN metaData = SharedPaths
    /\ \A p \in SharedPaths :
           /\ metaData[p] = Entry(p, metaData[p].downloadCount)
           /\ metaData[p].downloadCount >= count0[p]

\* A metadata request and a file request of the same entry have both been
\* answered.
C17_Witness ==
    /\ req[1].pc = "ended" /\ req[1].body.kind = "meta"
    /\ req[1].url = UrlOf(<<idOf(PathF), Meta>>)
    /\ req[2].pc = "ended" /\ req[2].body.kind = "file"
    /\ req[2].url = UrlOf(<<idOf(PathF)>>)
    /\ metaData[PathF].downloadCount = count0[PathF] + 1

\* C18: when the signals of the old Server's stop() are rejected during a
\* restart, the rejection is logged and the sequence goes on as after a
\* resolution: with a configuration that names a port a new Server is
\* constructed, becomes the current one and has its start() called (its
\* listener is open, or its bind failure is pending, or start() raised and
\* the error was sent to the window).
C18_RejectedStopProceeds ==
    [][\A c \in 1 .. MaxCalls :
          (chain[c].sig = "pending" /\ chain'[c].sig = "rejected") =>
              /\ "createServer" \in logged'
              /\ config.port # NoPort =>
                     /\ nServers' = nServers + 1
                     /\ server' = nServers'
                     /\ http'[server'].port = config.port
                     /\ \/ http'[server'].handle
                        \/ http'[server'].errPending
                        \/ server' \in errorsSent']_vars

\* A restart whose stop() signals were rejected has gone on: the rejection
\* is logged and a newer Server is current, with its listener open.
C18_Witness ==
    \E c \in 1 .. MaxCalls :
        /\ chain[c].pc = "done" /\ chain[c].sig = "rejected"
        /\ "createServer" \in logged
        /\ server > chain[c].old
        /\ http[server].handle

\* C19: once will-quit has run, the application eventually exits.
C19_QuitLeadsToExit ==
    (app = "quitting") ~> (app = "exited")

====
